---- MODULE Spec2Model ----
(***************************************************************************)
(* Model of the note codec of src/utils/notesFormatter.ts: formatNotes,    *)
(* parseNotes, mergeNotes and the point mutators addLink, setCritical,     *)
(* clearCritical and removeLink.                                           *)
(*                                                                         *)
(* A JavaScript string is a sequence of one-character strings, so that     *)
(* trim, split and join are computed as the code computes them.  An        *)
(* optional value (a field that may be undefined) is a sequence of length  *)
(* 0 (undefined) or 1 (the value), which keeps "absent" apart from the     *)
(* empty string and from the empty list.                                   *)
(***************************************************************************)
EXTENDS Integers, Sequences, FiniteSets, TLC

VARIABLES op, notes, components, updates, arg, outText, outRec, lineIx, scan,
          calls

vars ==
  <<op, notes, components, updates, arg, outText, outRec, lineIx, scan, calls>>

(* ------------------------------------------------------------------ *)
(* Bounds of the explored inputs                                       *)
(* ------------------------------------------------------------------ *)

\* longest raw text, counted in pieces of TextPieces
MaxPieces == 4
\* longest links list of a record given to formatNotes / mergeNotes
MaxLinks == 2

\* longest sequence of point mutators applied to one stored note
MaxCalls == 4

(* ------------------------------------------------------------------ *)
(* Optional values                                                     *)
(* ------------------------------------------------------------------ *)

Absent == <<>>

Some(x) == <<x>>

IsSet(o) == o # <<>>

Val(o) == o[1]

Range(s) == {s[i] : i \in 1..Len(s)}

(* ------------------------------------------------------------------ *)
(* String primitives of the JavaScript runtime                         *)
(* ------------------------------------------------------------------ *)

NL == "\n"

\* white space as String.prototype.trim sees it (its ASCII members that a
\* note can hold)
WhiteSpace == {" ", "\n", "\t", "\r"}

\* String.prototype.trim
Trim(s) ==
  LET keep == {i \in 1..Len(s) : s[i] \notin WhiteSpace}
  IN  IF keep = {} THEN <<>>
      ELSE SubSeq(s, CHOOSE i \in keep : \A j \in keep : i <= j,
                     CHOOSE i \in keep : \A j \in keep : j <= i)

\* String.prototype.split(sep) for a one-character separator: the pieces
\* between the separators, empty pieces included; "" splits into [""]
Split(s, sep) ==
  LET at == {i \in 1..Len(s) : s[i] = sep}
      n  == Cardinality(at)
      pos(k) == IF k = 0 THEN 0
                ELSE IF k = n + 1 THEN Len(s) + 1
                ELSE CHOOSE p \in at : Cardinality({q \in at : q < p}) = k - 1
  IN  [k \in 1..(n + 1) |-> SubSeq(s, pos(k - 1) + 1, pos(k) - 1)]

RECURSIVE Join(_, _)
\* Array.prototype.join(sep)
Join(list, sep) ==
  IF list = <<>> THEN <<>>
  ELSE IF Len(list) = 1 THEN list[1]
  ELSE list[1] \o sep \o Join(Tail(list), sep)

RECURSIVE Dedup(_)
\* [...new Set(list)]: the first occurrence of every entry, in order
Dedup(list) ==
  IF list = <<>> THEN <<>>
  ELSE LET front == Dedup(SubSeq(list, 1, Len(list) - 1))
           last  == list[Len(list)]
       IN  IF last \in Range(front) THEN front ELSE Append(front, last)

\* JavaScript truthiness of an optional string: set and not ""
Truthy(o) == IsSet(o) /\ Val(o) # <<>>

\* a ?? b on optional values
Coalesce(a, b) == IF IsSet(a) THEN a ELSE b

(* ------------------------------------------------------------------ *)
(* NoteComponents and the two section headers                          *)
(* ------------------------------------------------------------------ *)

CriticalHeader == <<"C", "r", "i", "t", "i", "c", "a", "l", ":">>

RelatedHeader == <<"R", "e", "l", "a", "t", "e", "d", ":">>

\* {}: no field set
NoteComponents(content, critical, links) ==
  [content |-> content, critical |-> critical, links |-> links]

EmptyComponents == NoteComponents(Absent, Absent, Absent)

(* ------------------------------------------------------------------ *)
(* formatNotes                                                         *)
(* ------------------------------------------------------------------ *)

\* formatNotes with the links joined by a space instead of ', '
formatNotesSpaceJoin(c) ==
  LET parts ==
        (IF Truthy(c.content) THEN <<Val(c.content)>> ELSE <<>>)
        \o (IF Truthy(c.critical)
              THEN <<CriticalHeader \o <<NL>> \o Val(c.critical)>> ELSE <<>>)
        \o (IF IsSet(c.links) /\ Len(Val(c.links)) > 0
              THEN <<RelatedHeader \o <<NL>> \o Join(Val(c.links), <<" ">>)>>
              ELSE <<>>)
  IN  Trim(Join(parts, <<NL, NL>>))

formatNotes(c) ==
  LET parts ==
        (IF Truthy(c.content) THEN <<Val(c.content)>> ELSE <<>>)
        \o (IF Truthy(c.critical)
              THEN <<CriticalHeader \o <<NL>> \o Val(c.critical)>> ELSE <<>>)
        \o (IF IsSet(c.links) /\ Len(Val(c.links)) > 0
              THEN <<RelatedHeader \o <<NL>> \o Join(Val(c.links), <<",", " ">>)>>
              ELSE <<>>)
  IN  Trim(Join(parts, <<NL, NL>>))

(* ------------------------------------------------------------------ *)
(* parseNotes                                                          *)
(* ------------------------------------------------------------------ *)

\* the loop's state before the first line
ParseStart ==
  [currentSection |-> "content", contentLines |-> <<>>,
   critical |-> Absent, links |-> Absent]

NonEmpty(s) == s # <<>>

\* SplitLinks without the map((id) => id.trim()) step
SplitLinksNoTrim(trimmed) == SelectSeq(Split(trimmed, ","), NonEmpty)

\* trimmed.split(',').map((id) => id.trim()).filter(Boolean)
SplitLinks(trimmed) ==
  LET tokens == Split(trimmed, ",")
  IN  SelectSeq([k \in 1..Len(tokens) |-> Trim(tokens[k])], NonEmpty)

\* ParseLine without the reset of currentSection after a capture
ParseLineNoRevert(st, line) ==
  LET trimmed == Trim(line)
  IN  IF trimmed = CriticalHeader THEN [st EXCEPT !.currentSection = "critical"]
      ELSE IF trimmed = RelatedHeader THEN [st EXCEPT !.currentSection = "related"]
      ELSE IF trimmed = <<>> THEN st
      ELSE IF st.currentSection = "critical"
        THEN [st EXCEPT !.critical = Some(trimmed)]
      ELSE IF st.currentSection = "related"
        THEN [st EXCEPT !.links = Some(SplitLinks(trimmed))]
      ELSE [st EXCEPT !.contentLines = Append(@, trimmed)]

\* one iteration of the for loop over the lines
ParseLine(st, line) ==
  LET trimmed == Trim(line)
  IN  IF trimmed = CriticalHeader THEN [st EXCEPT !.currentSection = "critical"]
      ELSE IF trimmed = RelatedHeader THEN [st EXCEPT !.currentSection = "related"]
      ELSE IF trimmed = <<>> THEN st
      ELSE IF st.currentSection = "critical"
        THEN [st EXCEPT !.critical = Some(trimmed), !.currentSection = "content"]
      ELSE IF st.currentSection = "related"
        THEN [st EXCEPT !.links = Some(SplitLinks(trimmed)),
                        !.currentSection = "content"]
      ELSE [st EXCEPT !.contentLines = Append(@, trimmed)]

RECURSIVE ParseLoop(_, _)
\* the loop's state after all of lines
ParseLoop(st, lines) ==
  IF lines = <<>> THEN st ELSE ParseLoop(ParseLine(st, lines[1]), Tail(lines))

\* notes is an optional string
parseNotes(n) ==
  IF ~Truthy(n) THEN EmptyComponents
  ELSE LET st == ParseLoop(ParseStart, Split(Val(n), NL))
       IN  NoteComponents(
             IF Len(st.contentLines) > 0
               THEN Some(Join(st.contentLines, <<NL>>)) ELSE Absent,
             st.critical, st.links)

(* ------------------------------------------------------------------ *)
(* mergeNotes                                                          *)
(* ------------------------------------------------------------------ *)

\* mergeNotes without the new Set(...) step
mergeNotesNoDedup(existing, upd) ==
  LET content ==
        IF Truthy(upd.content) /\ Truthy(existing.content)
          THEN Some(Val(existing.content) \o <<NL, NL>> \o Val(upd.content))
          ELSE Coalesce(upd.content, existing.content)
      critical == Coalesce(upd.critical, existing.critical)
      allLinks == (IF IsSet(existing.links) THEN Val(existing.links) ELSE <<>>)
                  \o (IF IsSet(upd.links) THEN Val(upd.links) ELSE <<>>)
      links == IF Len(allLinks) > 0 THEN Some(allLinks) ELSE Absent
  IN  NoteComponents(content, critical, links)

mergeNotes(existing, upd) ==
  LET content ==
        IF Truthy(upd.content) /\ Truthy(existing.content)
          THEN Some(Val(existing.content) \o <<NL, NL>> \o Val(upd.content))
          ELSE Coalesce(upd.content, existing.content)
      critical == Coalesce(upd.critical, existing.critical)
      allLinks == (IF IsSet(existing.links) THEN Val(existing.links) ELSE <<>>)
                  \o (IF IsSet(upd.links) THEN Val(upd.links) ELSE <<>>)
      links == IF Len(allLinks) > 0 THEN Some(Dedup(allLinks)) ELSE Absent
  IN  NoteComponents(content, critical, links)

(* ------------------------------------------------------------------ *)
(* Point mutators: the record each one hands to formatNotes, and the   *)
(* text it returns                                                     *)
(* ------------------------------------------------------------------ *)

\* addLink pushing the id without the new Set(...) step
addLinkComponentsNoDedup(n, linkId) ==
  LET c == parseNotes(n)
  IN  [c EXCEPT !.links =
         Some((IF IsSet(c.links) THEN Val(c.links) ELSE <<>>) \o <<linkId>>)]

addLinkComponents(n, linkId) ==
  LET c == parseNotes(n)
  IN  [c EXCEPT !.links =
         Some(Dedup((IF IsSet(c.links) THEN Val(c.links) ELSE <<>>) \o <<linkId>>))]

addLink(n, linkId) == formatNotes(addLinkComponents(n, linkId))

\* setCritical keeping a critical the text already holds (??= for =)
setCriticalComponentsKeep(n, critical) ==
  [parseNotes(n) EXCEPT !.critical = Coalesce(@, Some(critical))]

setCriticalComponents(n, critical) ==
  [parseNotes(n) EXCEPT !.critical = Some(critical)]

setCritical(n, critical) == formatNotes(setCriticalComponents(n, critical))

clearCriticalComponents(n) == [parseNotes(n) EXCEPT !.critical = Absent]

clearCritical(n) == formatNotes(clearCriticalComponents(n))

\* removeLink with the filter's test inverted (id === linkId)
removeLinkComponentsInverted(n, linkId) ==
  LET c == parseNotes(n)
      Same(id) == id = linkId
      links == IF IsSet(c.links) THEN Some(SelectSeq(Val(c.links), Same)) ELSE Absent
  IN  [c EXCEPT !.links = IF IsSet(links) /\ Len(Val(links)) = 0 THEN Absent ELSE links]

removeLinkComponents(n, linkId) ==
  LET c == parseNotes(n)
      Other(id) == id # linkId
      links == IF IsSet(c.links) THEN Some(SelectSeq(Val(c.links), Other)) ELSE Absent
  IN  [c EXCEPT !.links = IF IsSet(links) /\ Len(Val(links)) = 0 THEN Absent ELSE links]

removeLink(n, linkId) == formatNotes(removeLinkComponents(n, linkId))

(* ------------------------------------------------------------------ *)
(* Inputs                                                              *)
(* ------------------------------------------------------------------ *)

\* the building blocks of a raw text: a letter, the two separators the
\* decoder looks for, the two kinds of white space and the two headers
TextPieces == {<<"a">>, <<" ">>, <<",">>, <<NL>>, CriticalHeader, RelatedHeader}

RECURSIVE PieceStrings(_)
\* every concatenation of at most n pieces
PieceStrings(n) ==
  IF n = 0 THEN {<<>>}
  ELSE LET shorter == PieceStrings(n - 1)
       IN  shorter \cup {s \o p : s \in shorter, p \in TextPieces}

\* the stored text: undefined, or any string of at most MaxPieces pieces
NoteTexts == {Absent} \cup {Some(s) : s \in PieceStrings(MaxPieces)}

\* link identifiers handed to addLink / removeLink and held by records:
\* two plain ones, and ones holding a delimiter of the text format
LinkIds ==
  {<<"a">>, <<"b">>, <<"a", ",", "b">>, <<" ", "a">>, <<"a", NL, "b">>, <<>>,
   CriticalHeader}

\* critical values handed to setCritical and held by records
CriticalValues ==
  {<<"a">>, <<"a", " ", "b">>, <<>>, <<" ">>, <<" ", "a">>, <<"a", NL, "b">>,
   RelatedHeader}

\* content values held by records
ContentValues ==
  {<<"a">>, <<"a", " ", "b">>, <<"a", NL, "b">>, <<>>, <<" ">>, <<" ", "a">>,
   <<"a", " ">>, <<"a", NL, NL, "b">>, <<"a", NL, " ", "b">>, CriticalHeader,
   <<"a", NL>> \o RelatedHeader}

RECURSIVE Lists(_, _)
\* every list of at most n entries of S
Lists(S, n) ==
  IF n = 0 THEN {<<>>}
  ELSE LET shorter == Lists(S, n - 1)
       IN  shorter \cup {Append(l, x) : l \in shorter, x \in S}

Optional(S) == {Absent} \cup {Some(x) : x \in S}

\* the records given to formatNotes
FormatRecords ==
  {NoteComponents(content, critical, links) :
     content \in Optional(ContentValues), critical \in Optional(CriticalValues),
     links \in Optional(Lists(LinkIds, MaxLinks))}

\* the records given to mergeNotes: merge reads its strings only for being
\* set and empty, and its identifiers only for equality; existing is a
\* decoded record, whose strings are never empty, updates is any payload
MergeIds == {<<"A">>, <<"B">>, <<"C">>}

ExistingRecords ==
  {NoteComponents(content, critical, links) :
     content \in Optional({<<"a">>}), critical \in Optional({<<"o">>}),
     links \in Optional(Lists(MergeIds, MaxLinks))}

UpdateRecords ==
  {NoteComponents(content, critical, links) :
     content \in Optional({<<>>, <<"b">>}), critical \in Optional({<<>>, <<"n">>}),
     links \in Optional(Lists(MergeIds, MaxLinks))}

(* ------------------------------------------------------------------ *)
(* The calls.  notes / components / updates hold the arguments drawn   *)
(* at the start, op names the call made on them, arg its string        *)
(* argument, outText / outRec its result; lineIx and scan are the next *)
(* line and the locals of parseNotes' loop when it is followed line by *)
(* line; calls counts the point mutators applied to a note that is     *)
(* written back after each of them.                                    *)
(* ------------------------------------------------------------------ *)

NoCall ==
  /\ op = "none"
  /\ arg = <<>>
  /\ outText = <<>>
  /\ outRec = EmptyComponents
  /\ lineIx = 0
  /\ scan = ParseStart
  /\ calls = 0

\* a stored text, no call made yet
Init ==
  /\ notes \in NoteTexts
  /\ components = EmptyComponents
  /\ updates = EmptyComponents
  /\ NoCall

Parse ==
  /\ op = "none"
  /\ op' = "parseNotes"
  /\ outRec' = parseNotes(notes)
  /\ UNCHANGED <<calls, lineIx, scan, notes, components, updates, arg, outText>>

AddLink ==
  /\ op = "none"
  /\ op' = "addLink"
  /\ \E linkId \in LinkIds :
       /\ arg' = linkId
       /\ outRec' = addLinkComponents(notes, linkId)
       /\ outText' = addLink(notes, linkId)
  /\ UNCHANGED <<calls, lineIx, scan, notes, components, updates>>

RemoveLink ==
  /\ op = "none"
  /\ op' = "removeLink"
  /\ \E linkId \in LinkIds :
       /\ arg' = linkId
       /\ outRec' = removeLinkComponents(notes, linkId)
       /\ outText' = removeLink(notes, linkId)
  /\ UNCHANGED <<calls, lineIx, scan, notes, components, updates>>

SetCritical ==
  /\ op = "none"
  /\ op' = "setCritical"
  /\ \E critical \in CriticalValues :
       /\ arg' = critical
       /\ outRec' = setCriticalComponents(notes, critical)
       /\ outText' = setCritical(notes, critical)
  /\ UNCHANGED <<calls, lineIx, scan, notes, components, updates>>

ClearCritical ==
  /\ op = "none"
  /\ op' = "clearCritical"
  /\ outRec' = clearCriticalComponents(notes)
  /\ outText' = clearCritical(notes)
  /\ UNCHANGED <<calls, lineIx, scan, notes, components, updates, arg>>

Next == Parse \/ AddLink \/ RemoveLink \/ SetCritical \/ ClearCritical

\* the decoder and the point mutators on every stored text
Spec == Init /\ [][Next]_vars

\* a record to encode, no call made yet
InitFormat ==
  /\ components \in FormatRecords
  /\ notes = Absent
  /\ updates = EmptyComponents
  /\ NoCall

Format ==
  /\ op = "none"
  /\ op' = "formatNotes"
  /\ outText' = formatNotes(components)
  /\ UNCHANGED <<calls, lineIx, scan, notes, components, updates, arg, outRec>>

NextFormat == Format

\* the encoder on every record
SpecFormat == InitFormat /\ [][NextFormat]_vars

\* a decoded record and an update payload, no call made yet
InitMerge ==
  /\ components \in ExistingRecords
  /\ updates \in UpdateRecords
  /\ notes = Absent
  /\ NoCall

\* the merge, and the text the caller writes back
Merge ==
  /\ op = "none"
  /\ op' = "mergeNotes"
  /\ outRec' = mergeNotes(components, updates)
  /\ outText' = formatNotes(mergeNotes(components, updates))
  /\ UNCHANGED <<calls, lineIx, scan, notes, components, updates, arg>>

NextMerge == Merge

\* mergeNotes on every pair of records
SpecMerge == InitMerge /\ [][NextMerge]_vars

\* the texts whose decoding is followed line by line: the loop reads one
\* line per step, so these are one piece longer than the stored texts
ParseTexts == {Absent} \cup {Some(s) : s \in PieceStrings(MaxPieces + 1)}

\* notes.split('\n')
NoteLines == Split(Val(notes), NL)

\* the record parseNotes returns from the locals its loop leaves
ParseResult(locals) ==
  NoteComponents(
    IF Len(locals.contentLines) > 0
      THEN Some(Join(locals.contentLines, <<NL>>)) ELSE Absent,
    locals.critical, locals.links)

InitParse ==
  /\ notes \in ParseTexts
  /\ components = EmptyComponents
  /\ updates = EmptyComponents
  /\ NoCall

\* if (!notes) return {}
ParseEmpty ==
  /\ op = "none"
  /\ ~Truthy(notes)
  /\ op' = "parseNotes"
  /\ outRec' = EmptyComponents
  /\ UNCHANGED <<calls, lineIx, scan, notes, components, updates, arg, outText>>

\* the locals are set up and the text is split
ParseSplit ==
  /\ op = "none"
  /\ Truthy(notes)
  /\ op' = "parsing"
  /\ lineIx' = 1
  /\ scan' = ParseStart
  /\ UNCHANGED <<calls, notes, components, updates, arg, outText, outRec>>

\* one iteration of the loop
ParseStep ==
  /\ op = "parsing"
  /\ lineIx <= Len(NoteLines)
  /\ scan' = ParseLine(scan, NoteLines[lineIx])
  /\ lineIx' = lineIx + 1
  /\ UNCHANGED <<calls, op, notes, components, updates, arg, outText, outRec>>

\* the loop is over: content is joined and the record returned
ParseReturn ==
  /\ op = "parsing"
  /\ lineIx > Len(NoteLines)
  /\ op' = "parseNotes"
  /\ outRec' = ParseResult(scan)
  /\ UNCHANGED <<calls, lineIx, scan, notes, components, updates, arg, outText>>

NextParse == ParseEmpty \/ ParseSplit \/ ParseStep \/ ParseReturn

\* parseNotes followed line by line
SpecParse == InitParse /\ [][NextParse]_vars

(* ------------------------------------------------------------------ *)
(* A note that is read, changed by one point mutator and written back, *)
(* again and again: notes is the stored text, calls the number of      *)
(* mutators applied to it so far.                                      *)
(* ------------------------------------------------------------------ *)

\* no text stored yet
InitStore ==
  /\ notes = Absent
  /\ components = EmptyComponents
  /\ updates = EmptyComponents
  /\ NoCall

StoreAddLink ==
  /\ calls < MaxCalls
  /\ op' = "addLink"
  /\ \E linkId \in LinkIds :
       /\ arg' = linkId
       /\ outRec' = addLinkComponents(notes, linkId)
       /\ outText' = addLink(notes, linkId)
       /\ notes' = Some(addLink(notes, linkId))
  /\ calls' = calls + 1
  /\ UNCHANGED <<lineIx, scan, components, updates>>

StoreRemoveLink ==
  /\ calls < MaxCalls
  /\ op' = "removeLink"
  /\ \E linkId \in LinkIds :
       /\ arg' = linkId
       /\ outRec' = removeLinkComponents(notes, linkId)
       /\ outText' = removeLink(notes, linkId)
       /\ notes' = Some(removeLink(notes, linkId))
  /\ calls' = calls + 1
  /\ UNCHANGED <<lineIx, scan, components, updates>>

StoreSetCritical ==
  /\ calls < MaxCalls
  /\ op' = "setCritical"
  /\ \E critical \in CriticalValues :
       /\ arg' = critical
       /\ outRec' = setCriticalComponents(notes, critical)
       /\ outText' = setCritical(notes, critical)
       /\ notes' = Some(setCritical(notes, critical))
  /\ calls' = calls + 1
  /\ UNCHANGED <<lineIx, scan, components, updates>>

StoreClearCritical ==
  /\ calls < MaxCalls
  /\ op' = "clearCritical"
  /\ outRec' = clearCriticalComponents(notes)
  /\ outText' = clearCritical(notes)
  /\ notes' = Some(clearCritical(notes))
  /\ calls' = calls + 1
  /\ UNCHANGED <<lineIx, scan, components, updates, arg>>

NextStore ==
  StoreAddLink \/ StoreRemoveLink \/ StoreSetCritical \/ StoreClearCritical

\* every sequence of at most MaxCalls point mutators, from absent text
SpecStore == InitStore /\ [][NextStore]_vars

(* ------------------------------------------------------------------ *)
(* Shapes of strings and records the properties speak of               *)
(* ------------------------------------------------------------------ *)

Headers == {CriticalHeader, RelatedHeader}

Lines(s) == Split(s, NL)

\* some line of s is, once trimmed, a section header
HasHeaderLine(s) == \E k \in 1..Len(Lines(s)) : Trim(Lines(s)[k]) \in Headers

\* a line the decoder gives back as it stands: not blank, no white space
\* around it, not a header
CleanLine(l) == l # <<>> /\ Trim(l) = l /\ l \notin Headers

\* an identifier the Related: line gives back as it stands
CleanId(id) ==
  /\ id # <<>>
  /\ Trim(id) = id
  /\ \A i \in 1..Len(id) : id[i] \notin {",", NL}
  /\ id \notin Headers

\* the set fields of c are non-empty and hold no header line
NonEmptyNoHeader(c) ==
  /\ IsSet(c.content) => Val(c.content) # <<>> /\ ~HasHeaderLine(Val(c.content))
  /\ IsSet(c.critical) => Val(c.critical) # <<>> /\ ~HasHeaderLine(Val(c.critical))
  /\ IsSet(c.links) =>
       /\ Val(c.links) # <<>>
       /\ \A k \in 1..Len(Val(c.links)) :
            Val(c.links)[k] # <<>> /\ ~HasHeaderLine(Val(c.links)[k])

\* every set field of c is in the shape the decoder produces
Canonical(c) ==
  /\ IsSet(c.content) =>
       \A k \in 1..Len(Lines(Val(c.content))) : CleanLine(Lines(Val(c.content))[k])
  /\ IsSet(c.critical) => CleanLine(Val(c.critical)) /\ Len(Lines(Val(c.critical))) = 1
  /\ IsSet(c.links) =>
       /\ Val(c.links) # <<>>
       /\ \A k \in 1..Len(Val(c.links)) : CleanId(Val(c.links)[k])

(* ------------------------------------------------------------------ *)
(* C1: round trip                                                      *)
(* ------------------------------------------------------------------ *)

\* C1 as stated: for every record whose set fields are non-empty and hold
\* no header line, parseNotes(formatNotes(c)) equals c field for field.
C1_RoundTripAsStated ==
  (op = "formatNotes" /\ NonEmptyNoHeader(components))
    => parseNotes(Some(outText)) = components

\* C1 (amended): for every record whose content has only non-blank lines
\* without surrounding white space, whose critical is one such line, whose
\* links are a non-empty list of non-empty identifiers without comma, line
\* break or surrounding white space, and none of these lines or identifiers
\* a header, parseNotes(formatNotes(c)) equals c field for field.
C1_RoundTrip ==
  (op = "formatNotes" /\ Canonical(components))
    => parseNotes(Some(outText)) = components

\* a canonical record with all three fields, two content lines and two
\* links has been encoded
C1_Witness ==
  /\ op = "formatNotes"
  /\ Canonical(components)
  /\ IsSet(components.content) /\ Len(Lines(Val(components.content))) = 2
  /\ IsSet(components.critical)
  /\ IsSet(components.links) /\ Len(Val(components.links)) = 2
  /\ Val(components.links)[1] # Val(components.links)[2]

(* ------------------------------------------------------------------ *)
(* C2: idempotence of format                                           *)
(* ------------------------------------------------------------------ *)

\* each field of c is absent, empty or canonical
CanonicalOrEmpty(c) ==
  Canonical([content  |-> IF Truthy(c.content) THEN c.content ELSE Absent,
             critical |-> IF Truthy(c.critical) THEN c.critical ELSE Absent,
             links    |-> IF c.links = Some(<<>>) THEN Absent ELSE c.links])

\* C2 as stated: for every record c,
\* formatNotes(parseNotes(formatNotes(c))) is the same string as formatNotes(c).
C2_FormatIdempotentAsStated ==
  op = "formatNotes" => formatNotes(parseNotes(Some(outText))) = outText

\* C2 (amended): for every record c each of whose fields is absent, empty or
\* canonical (as in C1), formatNotes(parseNotes(formatNotes(c))) is the same
\* string as formatNotes(c).
C2_FormatIdempotent ==
  (op = "formatNotes" /\ CanonicalOrEmpty(components))
    => formatNotes(parseNotes(Some(outText))) = outText

\* a record with an empty content, a canonical critical and canonical links
\* has been encoded
C2_Witness ==
  /\ op = "formatNotes"
  /\ CanonicalOrEmpty(components)
  /\ components.content = Some(<<>>)
  /\ Truthy(components.critical)
  /\ IsSet(components.links) /\ Len(Val(components.links)) = 2
  /\ outText # <<>>

(* ------------------------------------------------------------------ *)
(* C3: mergeNotes, links                                               *)
(* ------------------------------------------------------------------ *)

LinksOf(o) == IF IsSet(o) THEN Val(o) ELSE <<>>

NoDuplicate(l) == \A i, j \in 1..Len(l) : i < j => l[i] # l[j]

\* the entries l[k] with Keep(k), in their order
EntriesAt(l, Keep(_)) ==
  LET at == {k \in 1..Len(l) : Keep(k)}
      nth(i) == CHOOSE k \in at : Cardinality({j \in at : j < k}) = i - 1
  IN  [i \in 1..Cardinality(at) |-> l[nth(i)]]

\* the entries of l, each at its first occurrence
FirstOccurrences(l) ==
  LET First(k) == \A j \in 1..(k - 1) : l[j] # l[k]
  IN  EntriesAt(l, First)

\* the entries of new that old does not hold, each at its first occurrence
NotAlreadyPresent(new, old) ==
  LET Fresh(k) == new[k] \notin Range(old) /\ \A j \in 1..(k - 1) : new[j] # new[k]
  IN  EntriesAt(new, Fresh)

\* C3: the merged links are the entries of existing.links in their order
\* followed by the entries of updates.links not already present, in their
\* order, and no identifier occurs twice (a list given with a repeated
\* identifier counts once, where it first occurs); the field is absent when
\* neither input has a link.
C3_MergeLinks ==
  op = "mergeNotes" =>
    LET e == LinksOf(components.links)
        u == LinksOf(updates.links)
    IN  IF e = <<>> /\ u = <<>> THEN outRec.links = Absent
        ELSE /\ IsSet(outRec.links)
             /\ Val(outRec.links) = FirstOccurrences(e) \o NotAlreadyPresent(u, e)
             /\ NoDuplicate(Val(outRec.links))
             /\ NoDuplicate(e) => SubSeq(Val(outRec.links), 1, Len(e)) = e

\* two existing links were merged with an update holding one of them and a
\* new one
C3_Witness ==
  /\ op = "mergeNotes"
  /\ Len(LinksOf(components.links)) = 2 /\ NoDuplicate(LinksOf(components.links))
  /\ Len(LinksOf(updates.links)) = 2
  /\ LinksOf(updates.links)[1] \in Range(LinksOf(components.links))
  /\ LinksOf(updates.links)[2] \notin Range(LinksOf(components.links))
  /\ Len(LinksOf(outRec.links)) = 3

(* ------------------------------------------------------------------ *)
(* C4: mergeNotes, content                                             *)
(* ------------------------------------------------------------------ *)

IsPrefix(p, s) == Len(p) <= Len(s) /\ SubSeq(s, 1, Len(p)) = p

\* C4: with both contents present the merged content is existing.content, a
\* blank line, updates.content; with one present it is that one; with none
\* it is absent; a present existing.content is never dropped, whatever
\* updates.content is (the empty string included).
C4_MergeContent ==
  op = "mergeNotes" =>
    LET e == components.content
        u == updates.content
        m == outRec.content
    IN  /\ (IsSet(e) /\ IsSet(u)) => m = Some(Val(e) \o <<NL, NL>> \o Val(u))
        /\ (IsSet(e) /\ ~IsSet(u)) => m = e
        /\ (~IsSet(e) /\ IsSet(u)) => m = u
        /\ (~IsSet(e) /\ ~IsSet(u)) => m = Absent
        /\ IsSet(e) => (IsSet(m) /\ IsPrefix(Val(e), Val(m)))

(* ------------------------------------------------------------------ *)
(* C5: mergeNotes, critical                                            *)
(* ------------------------------------------------------------------ *)

\* text holds a header line followed at once by a non-blank line
HasBlock(text, header) ==
  \E k \in 1..(Len(Lines(text)) - 1) :
    Trim(Lines(text)[k]) = header /\ Trim(Lines(text)[k + 1]) # <<>>

\* C5: the merged critical is updates.critical when updates carries one and
\* existing.critical otherwise, and merge cannot clear critical: when
\* existing.critical is non-empty, the text formatted from the merged record
\* holds a Critical: block, whatever updates is.
C5_MergeCritical ==
  op = "mergeNotes" =>
    /\ outRec.critical = Coalesce(updates.critical, components.critical)
    /\ Truthy(components.critical) => HasBlock(outText, CriticalHeader)

(* ------------------------------------------------------------------ *)
(* C6: addLink is idempotent                                           *)
(* ------------------------------------------------------------------ *)

\* an identifier without comma, line break or surrounding white space
PlainId(id) ==
  /\ Trim(id) = id
  /\ \A i \in 1..Len(id) : id[i] \notin {",", NL}

\* the links the decoder finds in the stored text
StoredLinks == LinksOf(parseNotes(notes).links)

\* C6 as stated: for every text and every id, adding id a second time gives
\* the text of the first addition, and adding an id the text already links
\* gives formatNotes(parseNotes(text)).
C6_AddLinkIdempotentAsStated ==
  op = "addLink" =>
    /\ addLink(Some(outText), arg) = outText
    /\ arg \in Range(StoredLinks) => outText = formatNotes(parseNotes(notes))

\* C6 (amended): for every text and every id without comma, line break or
\* surrounding white space, adding id a second time gives the text of the
\* first addition; and when id is already among the text's links and these
\* hold no identifier twice, addLink gives formatNotes(parseNotes(text)).
C6_AddLinkIdempotent ==
  op = "addLink" =>
    /\ PlainId(arg) => addLink(Some(outText), arg) = outText
    /\ (arg \in Range(StoredLinks) /\ NoDuplicate(StoredLinks))
         => outText = formatNotes(parseNotes(notes))

\* a new plain id was added to a text that already held a link
C6_Witness ==
  /\ op = "addLink"
  /\ PlainId(arg) /\ arg # <<>>
  /\ StoredLinks # <<>>
  /\ arg \notin Range(StoredLinks)
  /\ Len(LinksOf(outRec.links)) = Len(StoredLinks) + 1
  /\ outText # formatNotes(parseNotes(notes))

(* ------------------------------------------------------------------ *)
(* C7: removeLink undoes addLink                                       *)
(* ------------------------------------------------------------------ *)

\* decoding removeLink(addLink(text, X), X) gives the links, content and
\* critical of the stored text
AddThenRemoveRestores ==
  LET r == parseNotes(Some(removeLink(Some(outText), arg)))
      o == parseNotes(notes)
  IN  /\ LinksOf(r.links) = LinksOf(o.links)
      /\ o.links = Absent => r.links = Absent
      /\ r.content = o.content
      /\ r.critical = o.critical

C8_LinksNeverEmpty ==
  /\ op \in {"parseNotes", "mergeNotes", "addLink", "removeLink", "setCritical",
             "clearCritical"} => outRec.links # Some(<<>>)
  /\ (op = "removeLink" /\ Range(StoredLinks) = {arg}) => outRec.links = Absent

(* ------------------------------------------------------------------ *)
(* C9: formatNotes never emits an empty section                        *)
(* ------------------------------------------------------------------ *)

HeaderLine(text, k) == Trim(Lines(text)[k]) \in Headers

\* C9: the output holds a Critical: line only if critical is set and a
\* Related: line only if links is set, every header line is followed at
\* once by a non-blank line, and the empty record formats to "".
C9_NoEmptySection ==
  op = "formatNotes" =>
    /\ (\E k \in 1..Len(Lines(outText)) : Trim(Lines(outText)[k]) = CriticalHeader)
         => IsSet(components.critical)
    /\ (\E k \in 1..Len(Lines(outText)) : Trim(Lines(outText)[k]) = RelatedHeader)
         => IsSet(components.links)
    /\ \A k \in 1..Len(Lines(outText)) :
         HeaderLine(outText, k) =>
           /\ k < Len(Lines(outText))
           /\ Trim(Lines(outText)[k + 1]) # <<>>
    /\ components = EmptyComponents => outText = <<>>

(* ------------------------------------------------------------------ *)
(* C10: clearCritical                                                  *)
(* ------------------------------------------------------------------ *)

\* C10: for every text, clearCritical(text) holds no Critical: line and
\* decodes to no critical, and to the content and links of the text.
C10_ClearCritical ==
  op = "clearCritical" =>
    /\ \A k \in 1..Len(Lines(outText)) : Trim(Lines(outText)[k]) # CriticalHeader
    /\ parseNotes(Some(outText)).critical = Absent
    /\ parseNotes(Some(outText)).content = parseNotes(notes).content
    /\ parseNotes(Some(outText)).links = parseNotes(notes).links

(* ------------------------------------------------------------------ *)
(* C11: setCritical overwrites                                         *)
(* ------------------------------------------------------------------ *)

\* the lines of text that are a Critical: header
CriticalLines(text) ==
  {k \in 1..Len(Lines(text)) : Trim(Lines(text)[k]) = CriticalHeader}

\* the result of setCritical holds one Critical: header, with its payload,
\* right after the content, and decodes to the value given
SetCriticalOverwrites ==
  LET c == parseNotes(notes).content
      head == (IF IsSet(c) THEN Val(c) \o <<NL, NL>> ELSE <<>>)
                \o CriticalHeader \o <<NL>> \o arg
  IN  /\ Cardinality(CriticalLines(outText)) = 1
      /\ HasBlock(outText, CriticalHeader)
      /\ IsPrefix(head, outText)
      /\ parseNotes(Some(outText)).critical = Some(arg)

\* one non-blank line without surrounding white space that is no header
OneCleanLine(v) == CleanLine(v) /\ Len(Lines(v)) = 1

\* C11 as stated: for every text and every value, setCritical(text, value)
\* holds exactly one Critical: block, placed after the content, and decodes
\* to critical = value, whatever critical the text held.
C11_SetCriticalAsStated == op = "setCritical" => SetCriticalOverwrites

\* C11 (amended): the same, for every value that is one non-blank line
\* without surrounding white space and not a header, and every text whose
\* links are not the lone identifier `Critical:`.
C11_SetCritical ==
  (op = "setCritical" /\ OneCleanLine(arg) /\ StoredLinks # <<CriticalHeader>>)
    => SetCriticalOverwrites

\* a text holding another critical was given a clean value
C11_Witness ==
  /\ op = "setCritical"
  /\ OneCleanLine(arg)
  /\ StoredLinks # <<CriticalHeader>>
  /\ IsSet(parseNotes(notes).critical)
  /\ parseNotes(notes).critical # Some(arg)
  /\ outRec.critical = Some(arg)

(* ------------------------------------------------------------------ *)
(* C12: parseNotes captures one line after a header, then reverts      *)
(* ------------------------------------------------------------------ *)

LineAt(k) == Trim(NoteLines[k])

IsBlankAt(k) == LineAt(k) = <<>>

IsPayloadAt(k) == LineAt(k) # <<>> /\ LineAt(k) \notin Headers

\* line p is the first non-blank, non-header line after some header line
FirstPayloadAfter(header, p) ==
  /\ IsPayloadAt(p)
  /\ \E h \in 1..(p - 1) :
       LineAt(h) = header /\ \A k \in (h + 1)..(p - 1) : ~IsPayloadAt(k)

\* line p is a non-blank, non-header line with only blank lines between a
\* header line and itself
NextPayloadAfter(header, p) ==
  /\ IsPayloadAt(p)
  /\ \E h \in 1..(p - 1) :
       LineAt(h) = header /\ \A k \in (h + 1)..(p - 1) : IsBlankAt(k)

\* some header line has no non-blank line after it
TrailingHeader(header) ==
  \E h \in 1..Len(NoteLines) :
    LineAt(h) = header /\ \A k \in (h + 1)..Len(NoteLines) : IsBlankAt(k)

\* the loop reads line lineIx in this step
ReadsLine == op = "parsing" /\ lineIx <= Len(NoteLines) /\ lineIx' = lineIx + 1

\* the step as C12 states it
StepAsStated ==
  ReadsLine =>
    /\ IsBlankAt(lineIx) => scan' = scan
    /\ FirstPayloadAfter(CriticalHeader, lineIx) =>
         scan'.critical = Some(LineAt(lineIx)) /\ scan'.currentSection = "content"
    /\ FirstPayloadAfter(RelatedHeader, lineIx) =>
         scan'.links = Some(SplitLinks(LineAt(lineIx)))
           /\ scan'.currentSection = "content"
    /\ scan'.critical # scan.critical => FirstPayloadAfter(CriticalHeader, lineIx)
    /\ scan'.links # scan.links => FirstPayloadAfter(RelatedHeader, lineIx)
    /\ (IsPayloadAt(lineIx) /\ \E p \in 1..(lineIx - 1), h \in Headers :
                                 FirstPayloadAfter(h, p))
         => scan'.contentLines = Append(scan.contentLines, LineAt(lineIx))

\* the returned record as C12 states it
ReturnAsStated ==
  (op = "parseNotes" /\ Truthy(notes)) =>
    /\ TrailingHeader(CriticalHeader) => outRec.critical = Absent
    /\ TrailingHeader(RelatedHeader) => outRec.links = Absent

\* C12 as stated: after a header the first following non-blank, non-header
\* line is the only line captured for it and the section is content again
\* right after; every later non-blank, non-header line is appended to
\* content; blank lines change nothing; a header with no following non-blank
\* line leaves its field absent.
C12_CaptureThenRevertAsStated == []ReturnAsStated /\ [][StepAsStated]_vars

\* the step, with a capture only for the line that follows a header with
\* nothing but blank lines between
StepCapturesNext ==
  ReadsLine =>
    /\ IsBlankAt(lineIx) => scan' = scan
    /\ LineAt(lineIx) \in Headers =>
         scan' = [scan EXCEPT !.currentSection =
                    IF LineAt(lineIx) = CriticalHeader THEN "critical" ELSE "related"]
    /\ NextPayloadAfter(CriticalHeader, lineIx) =>
         scan' = [scan EXCEPT !.critical = Some(LineAt(lineIx)),
                              !.currentSection = "content"]
    /\ NextPayloadAfter(RelatedHeader, lineIx) =>
         scan' = [scan EXCEPT !.links = Some(SplitLinks(LineAt(lineIx))),
                              !.currentSection = "content"]
    /\ (IsPayloadAt(lineIx) /\ \A h \in Headers : ~NextPayloadAfter(h, lineIx))
         => scan' = [scan EXCEPT !.contentLines = Append(@, LineAt(lineIx))]
              /\ scan.currentSection = "content"

\* the lines that go to content, in input order
ContentLinesOf ==
  LET ToContent(k) == IsPayloadAt(k) /\ \A h \in Headers : ~NextPayloadAfter(h, k)
  IN  EntriesAt([k \in 1..Len(NoteLines) |-> LineAt(k)], ToContent)

\* the returned record: a field is absent exactly when no line was captured
\* for it, and content is the remaining lines in input order
ReturnCapturesNext ==
  (op = "parseNotes" /\ Truthy(notes)) =>
    /\ outRec.critical = Absent
         <=> ~\E p \in 1..Len(NoteLines) : NextPayloadAfter(CriticalHeader, p)
    /\ outRec.links = Absent
         <=> ~\E p \in 1..Len(NoteLines) : NextPayloadAfter(RelatedHeader, p)
    /\ outRec.content =
         IF ContentLinesOf = <<>> THEN Absent ELSE Some(Join(ContentLinesOf, <<NL>>))

\* C12 (amended): after a header, the first non-blank line that follows it,
\* when it is not itself a header, is the only line captured for that header
\* and the section is content again right after; every other non-blank,
\* non-header line is appended to content in input order; blank lines change
\* nothing; a header followed by another header or by no non-blank line
\* captures nothing, so its field is absent unless another header of its kind
\* captured a line.
C12_CaptureThenRevert == []ReturnCapturesNext /\ [][StepCapturesNext]_vars

\* a line was captured as critical and a later line has just been appended
\* to content
C12_Witness ==
  /\ op = "parsing"
  /\ lineIx > 1
  /\ IsPayloadAt(lineIx - 1)
  /\ \E p \in 1..(lineIx - 2) : NextPayloadAfter(CriticalHeader, p)
  /\ IsSet(scan.critical)
  /\ scan.currentSection = "content"
  /\ Len(scan.contentLines) >= 1

(* ------------------------------------------------------------------ *)
(* C13  the stored text under sequences of point mutators              *)
(* ------------------------------------------------------------------ *)

\* C13: starting from absent text, after any sequence of addLink,
\* removeLink, setCritical and clearCritical, each applied to the previous
\* result with any string argument, decoding the stored text and encoding it
\* again gives the stored text.
C13_StoredTextCanonical ==
  calls > 0 => formatNotes(parseNotes(notes)) = Val(notes)

====
